---- MODULE Spec2Model ----
(***************************************************************************)
(* A model of utils/Test_data_generator.py (class CVTestDataGenerator):    *)
(* the Excel file on disk, the generator instances with the workbook each  *)
(* has loaded, and the calls generate_all_cvs / generate_cv_by_index.      *)
(*                                                                         *)
(* Python values are tagged tuples: <<"None">>, <<"Int", n>>,              *)
(* <<"Str", text>> and <<"Json", doc>> (the str json.dumps(doc) returns).  *)
(* A text is a sequence of symbols; a symbol is one character, or one      *)
(* fixed word of the program (a label, a static field, the result header)  *)
(* taken as a unit.  The Japanese literals of the source are written in    *)
(* ASCII transliteration.                                                  *)
(*                                                                         *)
(* Spec is the generator.  SpecEngine is a run of the matching engine the  *)
(* request is built for (ScoreEngine, Ranker); the repository holds no     *)
(* source of it, so it is modelled from its specification.                 *)
(***************************************************************************)
EXTENDS Integers, Sequences, FiniteSets, TLC

VARIABLES disk, gens, calls, engine, output, class_weights,
          wait, loggers, session, screenshots, cleanup

\* The request builder and the ranking run.
builder == <<disk, gens, calls, engine, output, class_weights>>

\* The test scaffold: the wait in progress, the handlers of the loggers, the
\* pytest run, the screenshots directory, and the last clean-up of it.
scaffold == <<wait, loggers, session, screenshots, cleanup>>

vars == <<builder, scaffold>>

(***************************************************************************)
(* Bounds of the model.                                                    *)
(***************************************************************************)
MaxCols == 10
MaxRow == 4
MaxCalls == 2
NumGens == 1

Gens == 1..NumGens

(***************************************************************************)
(* Class constants, Test_data_generator.py lines 20-44.                    *)
(***************************************************************************)
STATIC_CV_ID == "12788"
STATIC_NAME == "Hirabayashi Naomi"
STATIC_FURIGANA == "hirabayashi naomi"
STATIC_BIRTHDATE == "1977-07-20"
STATIC_GENDER == "F"
STATIC_ADDRESS == "Tokyo Kokubunji Nishikoigakubo 2-8-11"
STATIC_JD_CONTENT == "bijutsu-ka hijokin koshi"
STATIC_TOP_K == 1
\* The weights 0.4, 0.2, 0.2, 0.2 in tenths.
STATIC_CUSTOM_WEIGHTS ==
    [license_score |-> 4, hours_score |-> 2,
     reliability_score |-> 2, competency_score |-> 2]
RESULT_COLUMN_HEADER == <<"cv generated result">>

(***************************************************************************)
(* Python str operations on texts.                                         *)
(***************************************************************************)
Whitespace == {" ", "\t", "\n"}

SetMin(S) == CHOOSE m \in S : \A k \in S : m <= k
SetMax(S) == CHOOSE m \in S : \A k \in S : m >= k

\* str.strip(): leading and trailing whitespace removed.
str_strip(s) ==
    LET keep == {i \in 1..Len(s) : s[i] \notin Whitespace}
    IN  IF keep = {} THEN <<>> ELSE SubSeq(s, SetMin(keep), SetMax(keep))

\* str.lower() on one symbol.
lower_sym(c) ==
    CASE c = "X" -> "x"
      [] c = "N" -> "n"
      [] c = "Y" -> "y"
      [] c = "CV Generated Result" -> "cv generated result"
      [] OTHER -> c

str_lower(s) == [i \in 1..Len(s) |-> lower_sym(s[i])]

\* sub in s, for texts.
str_contains(sub, s) ==
    \E i \in 1..(Len(s) - Len(sub) + 1) : SubSeq(s, i, i + Len(sub) - 1) = sub

RECURSIVE nat_text(_)
nat_text(n) ==
    LET d == <<"0", "1", "2", "3", "4", "5", "6", "7", "8", "9">>[(n % 10) + 1]
    IN  IF n < 10 THEN <<d>> ELSE nat_text(n \div 10) \o <<d>>

int_text(n) == IF n < 0 THEN <<"-">> \o nat_text(-n) ELSE nat_text(n)

\* ', '.join(names)
RECURSIVE str_join(_)
str_join(names) ==
    IF names = <<>> THEN <<>>
    ELSE IF Len(names) = 1 THEN names[1]
    ELSE names[1] \o <<", ">> \o str_join(Tail(names))

\* json.dumps(doc, ensure_ascii=False, indent=2) of a request, as a text.
json_dumps(doc) ==
    <<"{", "\"list_cv\": [">>
    \o (IF doc.list_cv = <<>> THEN <<>>
        ELSE <<"{", "\"cv_id\": ", doc.list_cv[1].cv_id, "\"content\": ">>
             \o doc.list_cv[1].content \o <<"}">>)
    \o <<"]", "\"jd\": ", doc.jd.content, "\"top_k\": ">> \o int_text(doc.top_k)
    \o <<"\"custom_weights\": {...}", "}">>

\* str(value)
py_str(v) ==
    CASE v[1] = "None" -> <<"N", "o", "n", "e">>
      [] v[1] = "Int" -> int_text(v[2])
      [] v[1] = "Str" -> v[2]
      [] v[1] = "Json" -> json_dumps(v[2])

\* bool(value)
truthy(v) ==
    CASE v[1] = "None" -> FALSE
      [] v[1] = "Int" -> v[2] # 0
      [] v[1] = "Str" -> v[2] # <<>>
      [] v[1] = "Json" -> TRUE

\* Whether value.strip() exists: str has it, int has not (AttributeError).
has_strip(v) == v[1] \in {"Str", "Json"}

None == <<"None">>
Str(s) == <<"Str", s>>

(***************************************************************************)
(* The worksheet: openpyxl's max_row, max_column and cell(row, col).value. *)
(* cell maps the positions that hold a value; any other cell reads None.   *)
(***************************************************************************)
cell_value(ws, r, c) ==
    IF <<r, c>> \in DOMAIN ws.cell THEN ws.cell[<<r, c>>] ELSE None

\* worksheet.cell(r, c).value = v
cell_write(ws, r, c, v) ==
    [max_row |-> IF r > ws.max_row THEN r ELSE ws.max_row,
     max_column |-> IF c > ws.max_column THEN c ELSE ws.max_column,
     cell |-> [p \in (DOMAIN ws.cell) \cup {<<r, c>>} |->
                  IF p = <<r, c>> THEN v ELSE ws.cell[p]]]

(***************************************************************************)
(* A generator instance: __init__, lines 46-59.  result_column_idx 0 is    *)
(* Python's None (no column index equals it).                              *)
(***************************************************************************)
NoSheet == [max_row |-> 1, max_column |-> 1, cell |-> [p \in {} |-> None]]

NewInstance ==
    [loaded |-> FALSE, worksheet |-> NoSheet, skill_headers |-> <<>>,
     result_column_idx |-> 0]

\* A header kept as it is, whitespace included.
clean_header_no_strip(hv) == IF truthy(hv) THEN py_str(hv) ELSE <<>>

\* Lines 85-86: header_value.strip() if header_value else "".
clean_header(hv) == IF truthy(hv) THEN str_strip(py_str(hv)) ELSE <<>>

\* Line 95: header and RESULT_COLUMN_HEADER in str(header).lower().
is_result_header(h) ==
    h # <<>> /\ str_contains(RESULT_COLUMN_HEADER, str_lower(h))

\* The header of a new result column written one column to the left, that
\* is over the last header of the sheet.
ensure_result_column_over_last_header(g) ==
    LET h == g.skill_headers
        found == {i \in 1..Len(h) : is_result_header(h[i])}
        new_col_idx == Len(h) + 1
    IN  IF found # {}
        THEN [g EXCEPT !.result_column_idx = SetMin(found)]
        ELSE [g EXCEPT !.result_column_idx = new_col_idx,
                       !.worksheet = cell_write(@, 2, new_col_idx - 1,
                                                Str(RESULT_COLUMN_HEADER)),
                       !.skill_headers = Append(@, RESULT_COLUMN_HEADER)]

\* _ensure_result_column, lines 92-102.
ensure_result_column(g) ==
    LET h == g.skill_headers
        found == {i \in 1..Len(h) : is_result_header(h[i])}
        new_col_idx == Len(h) + 1
    IN  IF found # {}
        THEN [g EXCEPT !.result_column_idx = SetMin(found)]
        ELSE [g EXCEPT !.result_column_idx = new_col_idx,
                       !.worksheet = cell_write(@, 2, new_col_idx,
                                                Str(RESULT_COLUMN_HEADER)),
                       !.skill_headers = Append(@, RESULT_COLUMN_HEADER)]

\* The headers load_excel appends to skill_headers, lines 82-87: one per
\* worksheet column, up to the first header that has no strip().
loaded_headers(old, file, stop) ==
    old \o [c \in 1..stop |-> clean_header(cell_value(file, 2, c))]

\* load_excel, lines 61-90.  A truthy header that is no str raises
\* AttributeError at line 86, after the headers before it were appended.
load_excel(g, file) ==
    LET n == file.max_column
        bad == {c \in 1..n : truthy(cell_value(file, 2, c))
                             /\ ~has_strip(cell_value(file, 2, c))}
        stop == IF bad = {} THEN n ELSE SetMin(bad) - 1
        g1 == [loaded |-> TRUE, worksheet |-> file,
               skill_headers |-> loaded_headers(g.skill_headers, file, stop),
               result_column_idx |-> g.result_column_idx]
    IN  IF bad # {}
        THEN [gen |-> g1, raised |-> "AttributeError"]
        ELSE [gen |-> ensure_result_column(g1), raised |-> ""]

\* The test without the strip().
is_marked_no_strip(v) == str_lower(py_str(v)) = <<"x">>

\* Lines 154 and 166: str(cell_value).strip().lower() == "x".
is_marked(v) == str_lower(str_strip(py_str(v))) = <<"x">>

\* The loops running one column further than their range.
marked_columns_one_more(g, row_idx, lo, hi, limit) ==
    {c \in lo..(hi + 1) : /\ c # g.result_column_idx
                          /\ c <= limit + 1
                          /\ is_marked(cell_value(g.worksheet, row_idx, c))}

\* The columns of lo..hi whose cell the loops of lines 150-169 test and find
\* marked: the result column is skipped (lines 151, 161), and the second
\* loop stops at the first column beyond skill_headers (line 163).
marked_columns(g, row_idx, lo, hi, limit) ==
    {c \in lo..hi : /\ c # g.result_column_idx
                    /\ c <= limit
                    /\ is_marked(cell_value(g.worksheet, row_idx, c))}

\* The i-th smallest element of a set of numbers.
nth(S, i) == CHOOSE c \in S : Cardinality({d \in S : d <= c}) = i

\* The names appended for the marked columns, in column order: the header
\* of the column when it is not empty (lines 155-157, 167-169).
skill_names(g, cols) ==
    LET named == {c \in cols : g.skill_headers[c] # <<>>}
    IN  [i \in 1..Cardinality(named) |-> g.skill_headers[nth(named, i)]]

\* extract_candidate_skills, lines 136-174.  openpyxl refuses a row below 1
\* (ValueError); a marked certificate column beyond skill_headers raises
\* IndexError at line 155.
extract_candidate_skills(g, row_idx) ==
    LET cert == marked_columns(g, row_idx, 1, 5, 5)
        univ == marked_columns(g, row_idx, 6, 9, Len(g.skill_headers))
    IN  IF row_idx < 1
        THEN [raised |-> "ValueError", certificate |-> <<>>, university |-> <<>>]
        ELSE IF \E c \in cert : c > Len(g.skill_headers)
        THEN [raised |-> "IndexError", certificate |-> <<>>, university |-> <<>>]
        ELSE [raised |-> "",
              certificate |-> skill_names(g, cert),
              university |-> skill_names(g, univ)]

\* The content with the institution line before the certificate line.
build_cv_content_university_first(skills) ==
    <<"shimei: ", STATIC_NAME, "\n",
      "furigana: ", STATIC_FURIGANA, "\n",
      "seibetsu: ", STATIC_GENDER, "\n",
      "seinengappi: ", STATIC_BIRTHDATE, "\n",
      "jusho: ", STATIC_ADDRESS, "\n">>
    \o (IF skills.university # <<>>
        THEN <<"daigakumei: ">> \o str_join(skills.university) \o <<"\n">>
        ELSE <<>>)
    \o (IF skills.certificate # <<>>
        THEN <<"shikaku-menkyo: ">> \o str_join(skills.certificate) \o <<"\n">>
        ELSE <<>>)

\* build_cv_content, lines 176-202.
build_cv_content(skills) ==
    <<"shimei: ", STATIC_NAME, "\n",
      "furigana: ", STATIC_FURIGANA, "\n",
      "seibetsu: ", STATIC_GENDER, "\n",
      "seinengappi: ", STATIC_BIRTHDATE, "\n",
      "jusho: ", STATIC_ADDRESS, "\n">>
    \o (IF skills.certificate # <<>>
        THEN <<"shikaku-menkyo: ">> \o str_join(skills.certificate) \o <<"\n">>
        ELSE <<>>)
    \o (IF skills.university # <<>>
        THEN <<"daigakumei: ">> \o str_join(skills.university) \o <<"\n">>
        ELSE <<>>)

\* A request that asks for as many results as it has cvs.
make_request_top_k_per_cv(cvs) ==
    [list_cv |-> cvs,
     jd |-> [content |-> STATIC_JD_CONTENT],
     top_k |-> Len(cvs),
     custom_weights |-> class_weights]

\* The request of lines 114-126 and 257-264.  custom_weights is the class
\* attribute itself (lines 125, 263), read when the request is built.
make_request(cvs) ==
    [list_cv |-> cvs,
     jd |-> [content |-> STATIC_JD_CONTENT],
     top_k |-> STATIC_TOP_K,
     custom_weights |-> class_weights]

\* The JSON written one row below the row of the cv.
update_result_column_next_row(g, row_idx, cv_id, cv_content) ==
    [g EXCEPT !.worksheet =
        cell_write(@, row_idx + 1, g.result_column_idx,
                   <<"Json", make_request(<<[cv_id |-> cv_id,
                                             content |-> cv_content]>>)>>)]

\* _update_result_column, lines 104-130.
update_result_column(g, row_idx, cv_id, cv_content) ==
    [g EXCEPT !.worksheet =
        cell_write(@, row_idx, g.result_column_idx,
                   <<"Json", make_request(<<[cv_id |-> cv_id,
                                             content |-> cv_content]>>)>>)]

\* The cv_id generate_single_cv gives the row, line 215.
cv_id_of(row_idx) == STATIC_CV_ID

NoCv == [cv_id |-> "", content |-> <<>>]

\* generate_single_cv, lines 204-225.
generate_single_cv(g, row_idx, update_excel) ==
    LET skills == extract_candidate_skills(g, row_idx)
        cv == [cv_id |-> cv_id_of(row_idx), content |-> build_cv_content(skills)]
    IN  IF skills.raised # ""
        THEN [gen |-> g, raised |-> skills.raised, cv |-> NoCv]
        ELSE [gen |-> IF update_excel
                      THEN update_result_column(g, row_idx, cv.cv_id, cv.content)
                      ELSE g,
              raised |-> "", cv |-> cv]

\* The test that looks at the result column too.
has_data_any_column(g, row_idx) ==
    \E col \in 1..g.worksheet.max_column :
        truthy(cell_value(g.worksheet, row_idx, col))

\* Lines 243-247: any cell of the row outside the result column is truthy.
has_data(g, row_idx) ==
    \E col \in 1..g.worksheet.max_column :
        col # g.result_column_idx /\ truthy(cell_value(g.worksheet, row_idx, col))

\* The loop stopped once it has STATIC_TOP_K cvs.
RECURSIVE candidate_rows_up_to_top_k(_, _, _, _, _)
candidate_rows_up_to_top_k(g, row_idx, last, update_excel, cvs) ==
    IF row_idx > last \/ Len(cvs) >= STATIC_TOP_K
    THEN [gen |-> g, raised |-> "", cvs |-> cvs]
    ELSE IF has_data(g, row_idx)
    THEN LET r == generate_single_cv(g, row_idx, update_excel)
         IN  IF r.raised # ""
             THEN [gen |-> r.gen, raised |-> r.raised, cvs |-> cvs]
             ELSE candidate_rows_up_to_top_k(r.gen, row_idx + 1, last,
                                             update_excel, Append(cvs, r.cv))
    ELSE candidate_rows_up_to_top_k(g, row_idx + 1, last, update_excel, cvs)

\* The loop of lines 242-251, from row_idx to last.
RECURSIVE candidate_rows(_, _, _, _, _)
candidate_rows(g, row_idx, last, update_excel, cvs) ==
    IF row_idx > last THEN [gen |-> g, raised |-> "", cvs |-> cvs]
    ELSE IF has_data(g, row_idx)
    THEN LET r == generate_single_cv(g, row_idx, update_excel)
         IN  IF r.raised # ""
             THEN [gen |-> r.gen, raised |-> r.raised, cvs |-> cvs]
             ELSE candidate_rows(r.gen, row_idx + 1, last, update_excel,
                                 Append(cvs, r.cv))
    ELSE candidate_rows(g, row_idx + 1, last, update_excel, cvs)

\* The run that saves the workbook whatever update_excel says.
generate_all_cvs_always_saves(g, file, out, output_path, update_excel) ==
    LET l == load_excel(g, file)
        r == candidate_rows(l.gen, 3, l.gen.worksheet.max_row, update_excel, <<>>)
        saved == r.gen.worksheet
    IN  IF l.raised # ""
        THEN [gen |-> l.gen, file |-> file, out |-> out, raised |-> l.raised,
              value |-> <<"none">>]
        ELSE IF r.raised # ""
        THEN [gen |-> r.gen, file |-> file, out |-> out, raised |-> r.raised,
              value |-> <<"none">>]
        ELSE IF output_path = "unwritable"
        THEN [gen |-> r.gen, file |-> saved, out |-> out, raised |-> "OSError",
              value |-> <<"none">>]
        ELSE [gen |-> r.gen, file |-> saved,
              out |-> IF output_path = "writable"
                      THEN <<"request", make_request(r.cvs)>> ELSE out,
              raised |-> "",
              value |-> <<"request", make_request(r.cvs)>>]

\* generate_all_cvs, lines 227-270: the instance after the call, the Excel
\* file after the call (save_excel, lines 253-254), the JSON output file
\* after the call (lines 266-268), and what it returns or raises.  The
\* output path is "none" (no path given), "writable" or "unwritable"; on an
\* unwritable path open() raises OSError at line 267, after the save.
generate_all_cvs(g, file, out, output_path, update_excel) ==
    LET l == load_excel(g, file)
        r == candidate_rows(l.gen, 3, l.gen.worksheet.max_row, update_excel, <<>>)
        saved == IF update_excel THEN r.gen.worksheet ELSE file
    IN  IF l.raised # ""
        THEN [gen |-> l.gen, file |-> file, out |-> out, raised |-> l.raised,
              value |-> <<"none">>]
        ELSE IF r.raised # ""
        THEN [gen |-> r.gen, file |-> file, out |-> out, raised |-> r.raised,
              value |-> <<"none">>]
        ELSE IF output_path = "unwritable"
        THEN [gen |-> r.gen, file |-> saved, out |-> out, raised |-> "OSError",
              value |-> <<"none">>]
        ELSE [gen |-> r.gen, file |-> saved,
              out |-> IF output_path = "writable"
                      THEN <<"request", make_request(r.cvs)>> ELSE out,
              raised |-> "",
              value |-> <<"request", make_request(r.cvs)>>]

\* generate_cv_by_index, lines 272-294.
generate_cv_by_index(g, file, candidate_index, update_excel) ==
    LET l == load_excel(g, file)
        row_idx == candidate_index + 3
        r == generate_single_cv(l.gen, row_idx, update_excel)
    IN  IF l.raised # ""
        THEN [gen |-> l.gen, file |-> file, raised |-> l.raised,
              value |-> <<"none">>]
        ELSE IF row_idx > l.gen.worksheet.max_row
        THEN [gen |-> l.gen, file |-> file, raised |-> "IndexError",
              value |-> <<"none">>]
        ELSE IF r.raised # ""
        THEN [gen |-> r.gen, file |-> file, raised |-> r.raised,
              value |-> <<"none">>]
        ELSE [gen |-> r.gen,
              file |-> IF update_excel THEN r.gen.worksheet ELSE file,
              raised |-> "",
              value |-> <<"cv", r.cv>>]

(***************************************************************************)
(* The workbooks the calls are run on.  A base sheet has the category row  *)
(* (row 1), one named skill header per column (row 2) and empty candidate  *)
(* rows; the inputs overwrite some of its cells.                           *)
(***************************************************************************)
HeaderNames ==
    <<"h1", "h2", "h3", "h4", "h5", "h6", "h7", "h8", "h9", "h10", "h11",
      "h12", "h13", "h14", "h15", "h16">>

BaseSheet(n, r) ==
    [max_row |-> r, max_column |-> n,
     cell |-> [p \in ({<<1, 1>>, <<1, 6>>} \cup ({2} \X (1..n)))
                        \cap ((1..2) \X (1..n)) |->
        IF p[1] = 2 THEN Str(<<HeaderNames[p[2]]>>)
        ELSE IF p[2] = 1 THEN Str(<<"shikaku-menkyo">>)
        ELSE Str(<<"daigakumei">>)]]

\* The sheet with the cell at p holding v (no value for None).
WithCell(ws, p, v) ==
    [ws EXCEPT !.cell =
        [q \in IF v = None THEN (DOMAIN ws.cell) \ {p}
               ELSE (DOMAIN ws.cell) \cup {p} |->
            IF q = p THEN v ELSE ws.cell[q]]]

\* Values a candidate cell may hold.
CellValues ==
    {None, <<"Int", 0>>, <<"Int", 1>>, Str(<<>>), Str(<<" ">>), Str(<<"x">>), Str(<<"X">>),
     Str(<<" ", "x", " ">>), Str(<<"x", "x">>), Str(<<"x", " ", "x">>),
     Str(<<"1">>), Str(<<"y", "e", "s">>)}

\* Values a header cell may hold.
HeaderValues ==
    {None, <<"Int", 0>>, <<"Int", 7>>, Str(<<>>), Str(<<" ">>),
     Str(<<" ", "h1", " ">>), Str(<<"x">>),
     Str(RESULT_COLUMN_HEADER), Str(<<"CV Generated Result">>),
     Str(<<"my", " ", "cv generated result", " ">>)}

X == Str(<<"x">>)

\* The columns the inputs vary: the first and the last of the certificate
\* range and of the institution range, and the last column of the sheet.
RangeEnds == {1, 5, 6, 9}

\* One candidate row, one cell of it holding any value.
OneCellSheets ==
    {WithCell(BaseSheet(MaxCols, 3), <<3, c>>, v) :
        c \in RangeEnds \cup {MaxCols}, v \in CellValues}

\* One header replaced, and a mark in that column.
HeaderSheets ==
    {WithCell(WithCell(BaseSheet(MaxCols - 1, 3), <<2, hc>>, hv), <<3, hc>>, X) :
        hc \in RangeEnds, hv \in HeaderValues}

\* Two marks in one row.
TwoMarkSheets ==
    {WithCell(WithCell(BaseSheet(MaxCols - 1, 3), <<3, c1>>, X), <<3, c2>>, X) :
        c1 \in {1, 2, 6}, c2 \in 2..(MaxCols - 1)}

\* Narrow sheets of up to MaxRow rows, each candidate row blank or marked in
\* the last column.
RowMarks(n) == {0, n}

RECURSIVE WithRows(_, _, _)
WithRows(ws, row, marks) ==
    IF row > ws.max_row THEN ws
    ELSE WithRows(IF marks[row] = 0 THEN ws
                  ELSE WithCell(ws, <<row, marks[row]>>, X),
                  row + 1, marks)

NarrowSheets ==
    UNION {{WithRows(BaseSheet(n, r), 3, marks) :
                marks \in [3..r -> RowMarks(n)]} :
           n \in 1..(MaxCols - 2), r \in 2..MaxRow}

Workbooks == OneCellSheets \cup HeaderSheets \cup TwoMarkSheets \cup NarrowSheets

(***************************************************************************)
(* The state: the Excel file, the generator instances, and the calls made  *)
(* so far with what each returned or raised.                               *)
(***************************************************************************)
EngineIdle == [phase |-> "idle"]

\* No wait has been called.
NoWait == [status |-> "idle"]

\* The logger names of the test modules (logger = get_logger(__name__)).
LoggerNames == {"conftest", "test_sample_login"}

\* logging.getLogger(name) of every name before any setup: level NOTSET, no
\* handlers, no setup_logger call made.
NoHandlers ==
    [n \in LoggerNames |-> [level |-> "NOTSET", handlers |-> <<>>, setups |-> 0]]

\* No pytest run.
NoSession == [phase |-> "idle"]

\* cleanup_old_screenshots has not been called.
NoCleanup == [called |-> FALSE]

\* The test scaffold before anything of it has run.
ScaffoldIdle ==
    /\ wait = NoWait
    /\ loggers = NoHandlers
    /\ session = NoSession
    /\ screenshots = {}
    /\ cleanup = NoCleanup

\* The JSON output file before any run has written it.
NoOutput == <<"none">>

Init ==
    /\ disk \in Workbooks
    /\ gens = [g \in Gens |-> NewInstance]
    /\ calls = <<>>
    /\ engine = EngineIdle
    /\ output = NoOutput
    /\ class_weights = STATIC_CUSTOM_WEIGHTS
    /\ ScaffoldIdle

\* The candidate indexes tried: from the one of row 0 to the one of the row
\* after the last.
Indexes == (0 - 3)..(MaxRow - 2)

CallRecord(op, g, index, update_excel, res) ==
    [op |-> op, gen |-> g, index |-> index, update_excel |-> update_excel,
     fresh |-> ~gens[g].loaded, raised |-> res.raised, value |-> res.value]

\* generator = CVTestDataGenerator(excel_path), line 309.
Construct(g) ==
    /\ gens[g].loaded
    /\ Len(calls) < MaxCalls
    /\ gens' = [gens EXCEPT ![g] = NewInstance]
    /\ UNCHANGED <<disk, calls, engine, output, class_weights>>
    /\ UNCHANGED scaffold

\* The output paths a run may be given.
OutputPaths == {"none", "writable", "unwritable"}

\* generator.generate_all_cvs(output, update_excel), line 318.
GenerateAll(g, output_path, update_excel) ==
    /\ Len(calls) < MaxCalls
    /\ \E res \in {generate_all_cvs(gens[g], disk, output, output_path, update_excel)} :
        /\ gens' = [gens EXCEPT ![g] = res.gen]
        /\ disk' = res.file
        /\ output' = res.out
        /\ calls' = Append(calls, CallRecord("all", g, 0, update_excel, res))
        /\ UNCHANGED <<engine, class_weights>>
        /\ UNCHANGED scaffold

\* generator.generate_cv_by_index(number, update_excel), line 313.
GenerateByIndex(g, candidate_index, update_excel) ==
    /\ Len(calls) < MaxCalls
    /\ \E res \in {generate_cv_by_index(gens[g], disk, candidate_index, update_excel)} :
        /\ gens' = [gens EXCEPT ![g] = res.gen]
        /\ disk' = res.file
        /\ calls' = Append(calls, CallRecord("index", g, candidate_index,
                                             update_excel, res))
        /\ UNCHANGED <<engine, output, class_weights>>
        /\ UNCHANGED scaffold

Next ==
    \/ \E g \in Gens : Construct(g)
    \/ \E g \in Gens, o \in OutputPaths, u \in BOOLEAN : GenerateAll(g, o, u)
    \/ \E g \in Gens, i \in Indexes, u \in BOOLEAN : GenerateByIndex(g, i, u)

Spec == Init /\ [][Next]_vars

(***************************************************************************)
(* Views of the state used by the properties.                              *)
(***************************************************************************)
LastCall == calls[Len(calls)]

\* The last call got past load_excel: the instance holds the worksheet and
\* the headers the call worked on.
Extracted(g) ==
    /\ calls # <<>>
    /\ LastCall.gen = g
    /\ gens[g].loaded
    /\ LastCall.raised # "AttributeError"

\* The text is an "x" or "X" with nothing but whitespace around it.
IsXText(v) ==
    /\ v[1] = "Str"
    /\ \E i \in 1..Len(v[2]) :
          /\ v[2][i] \in {"x", "X"}
          /\ \A j \in 1..Len(v[2]) : j # i => v[2][j] \in Whitespace

\* The columns of the two category ranges (lines 69-80) the loops find marked.
PresentColumns(g, row_idx) ==
    marked_columns(g, row_idx, 1, 5, 5)
        \cup marked_columns(g, row_idx, 6, 9, Len(g.skill_headers))

SheetRows(g) == 1..gens[g].worksheet.max_row

\* C1 as stated: in every row, a cell of columns 1-9 counts as present
\* exactly when its value is an "x" in any case with whitespace around it.
C1_PresentIffX ==
    \A g \in Gens : Extracted(g) =>
        \A r \in SheetRows(g) :
            LET present == PresentColumns(gens[g], r)
            IN  \A c \in 1..9 :
                    c \in present
                        <=> IsXText(cell_value(gens[g].worksheet, r, c))

\* C1 amended: the same for every column of 1-9 but the result column, whose
\* cell never counts as present, whatever it holds.
C1_PresentIffXOutsideResultColumn ==
    \A g \in Gens : Extracted(g) =>
        \A r \in SheetRows(g) :
            LET present == PresentColumns(gens[g], r)
            IN  \A c \in 1..9 :
                    c \in present
                        <=> (/\ c # gens[g].result_column_idx
                             /\ IsXText(cell_value(gens[g].worksheet, r, c)))

\* A padded " x " in an institution column counted as present, a "yes" cell
\* next to it not, after a call that returned.
C1_Witness ==
    \E g \in Gens, c \in 6..9 :
        /\ Extracted(g) /\ LastCall.raised = ""
        /\ cell_value(gens[g].worksheet, 3, c) = Str(<<" ", "x", " ">>)
        /\ c \in PresentColumns(gens[g], 3)
        /\ c # gens[g].result_column_idx

\* The header cell is missing, empty or whitespace only.
BlankHeader(v) ==
    \/ v = None
    \/ v[1] = "Str" /\ \A i \in 1..Len(v[2]) : v[2][i] \in Whitespace

\* The header cell holds a text (a str) with something but whitespace in it.
TextHeader(v) == v[1] \in {"Str", "Json"} /\ ~BlankHeader(v)

\* The header texts, without the whitespace around them, of the columns of
\* cols that hold such a text, in column order.
NamedHeaders(ws, cols) ==
    LET named == {c \in cols : TextHeader(cell_value(ws, 2, c))}
    IN  [i \in 1..Cardinality(named) |->
            str_strip(py_str(cell_value(ws, 2, nth(named, i))))]

\* C2: the names extracted for a row are those of the marked columns whose
\* row-2 header is not blank, so a column with an empty, missing or
\* whitespace-only header contributes none, and no name is the empty string.
C2_BlankHeaderContributesNothing ==
    \A g \in Gens : Extracted(g) =>
        \A r \in SheetRows(g) :
            LET sk == extract_candidate_skills(gens[g], r)
                ws == gens[g].worksheet
            IN  sk.raised = "" =>
                /\ sk.certificate
                     = NamedHeaders(ws, marked_columns(gens[g], r, 1, 5, 5))
                /\ sk.university
                     = NamedHeaders(ws, marked_columns(gens[g], r, 6, 9,
                                                       Len(gens[g].skill_headers)))
                /\ \A i \in 1..Len(sk.certificate) : sk.certificate[i] # <<>>
                /\ \A i \in 1..Len(sk.university) : sk.university[i] # <<>>

\* A marked column under a whitespace-only header, in a run that returned a
\* cv without that column's name.
C2_Witness ==
    \E g \in Gens, c \in 1..5 :
        /\ Extracted(g) /\ LastCall.op = "all" /\ LastCall.raised = ""
        /\ cell_value(gens[g].worksheet, 2, c) = Str(<<" ">>)
        /\ c \in marked_columns(gens[g], 3, 1, 5, 5)
        /\ Len(LastCall.value[2].list_cv) = 1
        /\ extract_candidate_skills(gens[g], 3).certificate = <<>>

\* The lines of a text: its symbols between the line ends.
RECURSIVE SplitLines(_)
SplitLines(s) ==
    LET ends == {i \in 1..Len(s) : s[i] = "\n"}
    IN  IF ends = {} THEN (IF s = <<>> THEN <<>> ELSE <<s>>)
        ELSE <<SubSeq(s, 1, SetMin(ends) - 1)>>
             \o SplitLines(SubSeq(s, SetMin(ends) + 1, Len(s)))

\* The text holds, from position at on, the line "label names[1], names[2],
\* ..." with its line end; the next position after it.
LineEnd(at, names) == at + Len(str_join(names)) + 2

HasLineAt(text, at, label, names) ==
    /\ Len(text) >= LineEnd(at, names) - 1
    /\ text[at] = label
    /\ SubSeq(text, at + 1, LineEnd(at, names) - 2) = str_join(names)
    /\ text[LineEnd(at, names) - 1] = "\n"

\* The layout of a cv content for the given skills: the five fixed lines,
\* then the certificate line, then the institution line, each of the two
\* only if its list is not empty, and nothing else.
FixedLayout(content, skills) ==
    LET fixed == SubSeq(content, 1, 15)
        c == skills.certificate
        u == skills.university
        afterC == IF c # <<>> THEN LineEnd(16, c) ELSE 16
        afterU == IF u # <<>> THEN LineEnd(afterC, u) ELSE afterC
    IN  /\ SplitLines(fixed) =
              << <<"shimei: ", STATIC_NAME>>,
                 <<"furigana: ", STATIC_FURIGANA>>,
                 <<"seibetsu: ", STATIC_GENDER>>,
                 <<"seinengappi: ", STATIC_BIRTHDATE>>,
                 <<"jusho: ", STATIC_ADDRESS>> >>
        /\ fixed[15] = "\n"
        /\ c # <<>> => HasLineAt(content, 16, "shikaku-menkyo: ", c)
        /\ u # <<>> => HasLineAt(content, afterC, "daigakumei: ", u)
        /\ Len(content) = afterU - 1

\* The rows generate_all_cvs finds data in: a cell outside the result column
\* that is neither empty nor zero.
DataRows(g) ==
    {r \in 3..g.worksheet.max_row :
        \E c \in 1..g.worksheet.max_column :
            /\ c # g.result_column_idx
            /\ cell_value(g.worksheet, r, c) \notin
                   {None, Str(<<>>), <<"Int", 0>>}}

\* The cvs the last call returned, each with the row it was made from.
ReturnedCvs ==
    IF calls = <<>> \/ LastCall.raised # "" \/ ~gens[LastCall.gen].loaded THEN {}
    ELSE IF LastCall.op = "index"
    THEN {[row |-> LastCall.index + 3, cv |-> LastCall.value[2]]}
    ELSE {[row |-> nth(DataRows(gens[LastCall.gen]), i),
           cv |-> LastCall.value[2].list_cv[i]] :
            i \in 1..Len(LastCall.value[2].list_cv)}

\* C3: every content returned has the fixed line order: name, furigana,
\* gender, birthdate, address, then the certificate line iff there are
\* certificates, then the institution line iff there are institutions.
C3_ContentLineOrder ==
    \A e \in ReturnedCvs :
        FixedLayout(e.cv.content,
                    extract_candidate_skills(gens[LastCall.gen], e.row))

\* A returned content with both a certificate and an institution line.
C3_Witness ==
    \E e \in ReturnedCvs :
        /\ Len(SplitLines(e.cv.content)) = 7
        /\ SplitLines(e.cv.content)[6][1] = "shikaku-menkyo: "
        /\ SplitLines(e.cv.content)[7][1] = "daigakumei: "
        /\ extract_candidate_skills(gens[LastCall.gen], e.row).certificate # <<>>
        /\ extract_candidate_skills(gens[LastCall.gen], e.row).university # <<>>

\* The first of two generate_all_cvs runs in a row, each on a newly
\* constructed generator, the first one with update_excel=True and returning.
RunTwice(i) ==
    /\ i < Len(calls)
    /\ calls[i].op = "all" /\ calls[i].fresh
    /\ calls[i].update_excel /\ calls[i].raised = ""
    /\ calls[i + 1].op = "all" /\ calls[i + 1].fresh

\* C4: a second generate_all_cvs run with a fresh generator, on the workbook
\* as the first run with update_excel=True left it, returns the same
\* list_cv, jd, top_k and custom_weights as the first run (unless its output
\* file cannot be written).
C4_SecondRunSameRequest ==
    \A i \in 1..Len(calls) :
        (RunTwice(i) /\ calls[i + 1].raised # "OSError") =>
            /\ calls[i + 1].raised = ""
            /\ calls[i + 1].value[2].list_cv = calls[i].value[2].list_cv
            /\ calls[i + 1].value[2].jd = calls[i].value[2].jd
            /\ calls[i + 1].value[2].top_k = calls[i].value[2].top_k
            /\ calls[i + 1].value[2].custom_weights
                   = calls[i].value[2].custom_weights

\* Two such runs on a workbook that had no result column: the first added
\* and filled it, the second found it, and both returned the same cv.
C4_Witness ==
    \E i \in 1..Len(calls) :
        /\ RunTwice(i)
        /\ calls[i + 1].raised = ""
        /\ calls[i + 1].value = calls[i].value
        /\ Len(calls[i].value[2].list_cv) >= 1
        /\ calls[i].value[2].list_cv[1].content # build_cv_content(
               [certificate |-> <<>>, university |-> <<>>])
        /\ \E g \in Gens :
              /\ gens[g].loaded
              /\ gens[g].result_column_idx = disk.max_column
              /\ cell_value(disk, 3, disk.max_column)[1] = "Json"

\* The shape of a request: the four keys, cvs of cv_id and content, a jd of
\* content, a positive integer top_k and the four weights.
WellFormedRequest(req) ==
    /\ DOMAIN req = {"list_cv", "jd", "top_k", "custom_weights"}
    /\ \A i \in 1..Len(req.list_cv) :
          DOMAIN req.list_cv[i] = {"cv_id", "content"}
    /\ DOMAIN req.jd = {"content"}
    /\ req.top_k \in Int /\ req.top_k > 0
    /\ DOMAIN req.custom_weights =
          {"license_score", "hours_score", "reliability_score",
           "competency_score"}

\* The JSON documents _update_result_column wrote into a worksheet.
JsonCells(ws) == {ws.cell[p][2] : p \in {q \in DOMAIN ws.cell : ws.cell[q][1] = "Json"}}

\* C5: every request generate_all_cvs returned and every JSON in a result
\* cell, in the file or in a generator's worksheet, has the request shape.
C5_RequestShape ==
    /\ \A i \in 1..Len(calls) :
          (calls[i].op = "all" /\ calls[i].raised = "")
              => WellFormedRequest(calls[i].value[2])
    /\ \A doc \in JsonCells(disk) : WellFormedRequest(doc)
    /\ \A g \in Gens : \A doc \in JsonCells(gens[g].worksheet) :
          WellFormedRequest(doc)

\* A returned request of one cv next to the JSON the same run saved.
C5_Witness ==
    /\ calls # <<>>
    /\ LastCall.op = "all" /\ LastCall.raised = "" /\ LastCall.update_excel
    /\ Len(LastCall.value[2].list_cv) = 1
    /\ JsonCells(disk) # {}
    /\ \A doc \in JsonCells(disk) :
          doc.list_cv = LastCall.value[2].list_cv /\ doc.top_k = 1

\* C6 as stated: no two cvs of a returned request have the same cv_id.
C6_CvIdsUnique ==
    \A i \in 1..Len(calls) :
        (calls[i].op = "all" /\ calls[i].raised = "") =>
            LET cvs == calls[i].value[2].list_cv
            IN  \A a, b \in 1..Len(cvs) : a # b => cvs[a].cv_id # cvs[b].cv_id

\* The last call was a generate_all_cvs that returned a request.
Requested ==
    /\ calls # <<>>
    /\ LastCall.op = "all" /\ LastCall.raised = ""
    /\ gens[LastCall.gen].loaded

MaxCands == 3

WeightNames ==
    {"license_score", "hours_score", "reliability_score", "competency_score"}

\* The neutral value of a missing sub-score, 0.5.
NEUTRAL_SUBSCORE == 5

\* Candidate ids, as digit strings; they are ordered as strings are.
IdPool == << <<1>>, <<1, 0>>, <<9>>, <<2>> >>
CandidateIds == {IdPool[i] : i \in 1..MaxCands}

\* a < b for strings.
lex_less(a, b) ==
    \E i \in 1..Len(b) :
        /\ i - 1 <= Len(a)
        /\ \A j \in 1..(i - 1) : a[j] = b[j]
        /\ (i > Len(a) \/ a[i] < b[i])

\* The sub-score of a profile for a factor; a factor the profile has no
\* signal for gets the neutral value.
subscore(profile, name) ==
    IF name \in DOMAIN profile THEN profile[name] ELSE NEUTRAL_SUBSCORE

weight_sum(w) ==
    w.license_score + w.hours_score + w.reliability_score + w.competency_score

\* Only "all zero" is refused.
weights_valid_unless_all_zero(w) == \E n \in WeightNames : w[n] # 0

\* The sum of the weights must be greater than 0.
weights_valid(w) == weight_sum(w) > 0

\* The weighted sum divided by 1.0, whatever the weights sum to.
combined_score_unnormalised(w, profile) ==
    [num |-> w.license_score * subscore(profile, "license_score")
             + w.hours_score * subscore(profile, "hours_score")
             + w.reliability_score * subscore(profile, "reliability_score")
             + w.competency_score * subscore(profile, "competency_score"),
     den |-> 10]

\* Combined score = sum(weight_i * subscore_i) / sum(weight_i).
combined_score(w, profile) ==
    [num |-> w.license_score * subscore(profile, "license_score")
             + w.hours_score * subscore(profile, "hours_score")
             + w.reliability_score * subscore(profile, "reliability_score")
             + w.competency_score * subscore(profile, "competency_score"),
     den |-> weight_sum(w)]

\* Score a is greater than score b (denominators are positive).
score_greater(a, b) == a.num * b.den > b.num * a.den

\* Candidate c comes before candidate d: higher score first, equal scores
\* by ascending id.
ranks_before(scores, c, d) ==
    \/ score_greater(scores[c], scores[d])
    \/ /\ ~score_greater(scores[d], scores[c])
       /\ lex_less(c, d)

\* The candidates of S in ranking order.
RECURSIVE sorted_by_score(_, _)
sorted_by_score(scores, S) ==
    IF S = {} THEN <<>>
    ELSE LET first == CHOOSE c \in S :
                          \A d \in S \ {c} : ranks_before(scores, c, d)
         IN  <<[id |-> first, score |-> scores[first]]>>
             \o sorted_by_score(scores, S \ {first})

\* A top_k of 0 is let through.
top_k_valid_from_zero(top_k) == top_k >= 0

\* top_k <= 0 is refused.
top_k_valid(top_k) == top_k > 0

\* rank(scored_candidates, top_k): the first top_k of the ranking order, all
\* of them when top_k exceeds their number.
rank(scores, top_k) ==
    LET all == sorted_by_score(scores, DOMAIN scores)
    IN  SubSeq(all, 1, IF top_k < Len(all) THEN top_k ELSE Len(all))

(***************************************************************************)
(* A ranking run: a pure function of the candidate profiles, the weights   *)
(* and top_k.  The weights are checked before scoring, the candidates are  *)
(* scored one by one in any order, and the Ranker runs once all scores are *)
(* there.                                                                  *)
(***************************************************************************)
\* Sub-scores of a candidate: the example of the scenario, all zero, the
\* license match alone (the other three missing), all one.
Profiles ==
    {[license_score |-> 10, hours_score |-> 5, reliability_score |-> 5,
      competency_score |-> 5],
     [license_score |-> 0, hours_score |-> 0, reliability_score |-> 0,
      competency_score |-> 0],
     [license_score |-> 10],
     [license_score |-> 10, hours_score |-> 10, reliability_score |-> 10,
      competency_score |-> 10]}

Weights(l, h, r, c) ==
    [license_score |-> l, hours_score |-> h, reliability_score |-> r,
     competency_score |-> c]

\* Weight configurations: the one of the request, one factor only, a sum
\* above 1.0, a negative weight in a positive sum, all zero, a zero sum and
\* a negative sum.
WeightConfigs ==
    {STATIC_CUSTOM_WEIGHTS, Weights(10, 0, 0, 0), Weights(10, 10, 10, 10),
     Weights(0 - 2, 4, 0, 0), Weights(0, 0, 0, 0), Weights(0 - 2, 1, 1, 0),
     Weights(0 - 4, 1, 1, 0)}

TopKs == ((0 - 1)..(MaxCands + 1)) \cup {STATIC_TOP_K, 100}

NoScores == [c \in {} |-> 0]

EngineInputs ==
    {[phase |-> "submitted", candidates |-> cand, weights |-> w, top_k |-> k,
      scores |-> NoScores, result |-> <<>>, error |-> ""] :
        cand \in UNION {[S -> Profiles] : S \in SUBSET CandidateIds},
        w \in WeightConfigs, k \in TopKs}

InitEngine ==
    /\ disk = BaseSheet(MaxCols, 2)
    /\ gens = [g \in Gens |-> NewInstance]
    /\ calls = <<>>
    /\ engine \in EngineInputs
    /\ output = NoOutput
    /\ class_weights = STATIC_CUSTOM_WEIGHTS
    /\ ScaffoldIdle

\* The weight configuration is checked before any scoring.
EngineValidate ==
    /\ engine.phase = "submitted"
    /\ engine' = IF weights_valid(engine.weights)
                 THEN [engine EXCEPT !.phase = "scoring"]
                 ELSE [engine EXCEPT !.phase = "failed",
                                     !.error = "InvalidWeightConfigError"]
    /\ UNCHANGED <<disk, gens, calls, output, class_weights>>
    /\ UNCHANGED scaffold

\* One candidate is scored.
EngineScore(c) ==
    /\ engine.phase = "scoring"
    /\ c \in DOMAIN engine.candidates
    /\ c \notin DOMAIN engine.scores
    /\ engine' = [engine EXCEPT !.scores =
          [d \in DOMAIN engine.scores \cup {c} |->
              IF d = c
              THEN combined_score(engine.weights, engine.candidates[c])
              ELSE engine.scores[d]]]
    /\ UNCHANGED <<disk, gens, calls, output, class_weights>>
    /\ UNCHANGED scaffold

\* The Ranker, once every candidate is scored.
EngineRank ==
    /\ engine.phase = "scoring"
    /\ DOMAIN engine.scores = DOMAIN engine.candidates
    /\ engine' = IF top_k_valid(engine.top_k)
                 THEN [engine EXCEPT !.phase = "ranked",
                                     !.result = rank(engine.scores,
                                                     engine.top_k)]
                 ELSE [engine EXCEPT !.phase = "failed",
                                     !.error = "InvalidTopKError"]
    /\ UNCHANGED <<disk, gens, calls, output, class_weights>>
    /\ UNCHANGED scaffold

NextEngine ==
    \/ EngineValidate
    \/ \E c \in CandidateIds : EngineScore(c)
    \/ EngineRank

SpecEngine == InitEngine /\ [][NextEngine]_vars

(***************************************************************************)
(* Properties of a ranking run.                                            *)
(***************************************************************************)
Running == engine.phase # "idle"

\* The ids of a ranked result.
ResultIds == {engine.result[i].id : i \in 1..Len(engine.result)}

\* The Ranker's contract for top_k > 0: min(top_k, n) candidates, each once,
\* in ranking order, and none left out that ranks before a returned one.
RankerContract ==
    (Running /\ engine.phase = "ranked") =>
        LET n == Cardinality(DOMAIN engine.candidates)
            res == engine.result
        IN  /\ Len(res) = IF engine.top_k < n THEN engine.top_k ELSE n
            /\ Cardinality(ResultIds) = Len(res)
            /\ ResultIds \subseteq DOMAIN engine.candidates
            /\ \A i \in 1..Len(res) :
                  res[i].score = combined_score(engine.weights,
                                                engine.candidates[res[i].id])
            /\ \A i, j \in 1..Len(res) : i < j =>
                  \/ res[i].score.num * res[j].score.den
                         > res[j].score.num * res[i].score.den
                  \/ /\ res[i].score.num * res[j].score.den
                            = res[j].score.num * res[i].score.den
                     /\ lex_less(res[i].id, res[j].id)
            /\ \A c \in DOMAIN engine.candidates \ ResultIds :
                  \A i \in 1..Len(res) : ranks_before(engine.scores, res[i].id, c)

\* C8: a run with top_k <= 0 never returns a result: it ends, the weights
\* being valid, with InvalidTopKError and nothing ranked; a run with top_k
\* above the number of candidates returns every candidate once, no more.
C8_TopKChecked ==
    Running =>
        /\ engine.top_k <= 0 =>
              /\ engine.phase # "ranked"
              /\ engine.result = <<>>
              /\ (engine.phase = "failed" /\ weights_valid(engine.weights))
                     => engine.error = "InvalidTopKError"
        /\ engine.error = "InvalidTopKError" =>
              engine.top_k <= 0 /\ engine.phase = "failed"
        /\ (engine.phase = "ranked"
               /\ engine.top_k > Cardinality(DOMAIN engine.candidates)) =>
              /\ engine.error = ""
              /\ Len(engine.result) = Cardinality(DOMAIN engine.candidates)
              /\ ResultIds = DOMAIN engine.candidates

\* A run of two scored candidates refused for top_k = 0.
C8_Witness ==
    /\ Running
    /\ engine.phase = "failed" /\ engine.error = "InvalidTopKError"
    /\ engine.top_k = 0
    /\ Cardinality(DOMAIN engine.scores) = 2
    /\ engine.result = <<>>

NonNegative(w) == \A n \in WeightNames : w[n] >= 0

ExampleProfile ==
    [license_score |-> 10, hours_score |-> 5, reliability_score |-> 5,
     competency_score |-> 5]

\* C9: with four non-negative weights of positive sum and sub-scores in
\* [0,1], every combined score lies in [0,1]; weights 0.4/0.2/0.2/0.2 with
\* sub-scores 1.0/0.5/0.5/0.5 give 0.7.
C9_CombinedScoreInUnitInterval ==
    Running =>
        \A c \in DOMAIN engine.scores :
            LET sc == engine.scores[c]
            IN  /\ (NonNegative(engine.weights)
                       /\ weight_sum(engine.weights) > 0) =>
                      /\ sc.den > 0
                      /\ 0 <= sc.num
                      /\ sc.num <= 10 * sc.den
                /\ (engine.weights = Weights(4, 2, 2, 2)
                       /\ engine.candidates[c] = ExampleProfile) =>
                      sc.num = 7 * sc.den

\* The example scored under the weights of the request: 0.7.
C9_Witness ==
    /\ Running
    /\ engine.weights = STATIC_CUSTOM_WEIGHTS
    /\ \E c \in DOMAIN engine.scores :
          /\ engine.candidates[c] = ExampleProfile
          /\ engine.scores[c] = [num |-> 70, den |-> 10]

\* C10: weights that do not sum to more than 0 make the run fail with
\* InvalidWeightConfigError at its first step: no candidate is ever scored
\* and nothing is ranked.
C10_WeightSumChecked ==
    (Running /\ weight_sum(engine.weights) <= 0) =>
        /\ DOMAIN engine.scores = {}
        /\ engine.result = <<>>
        /\ engine.phase \in {"submitted", "failed"}
        /\ engine.phase = "failed" =>
              engine.error = "InvalidWeightConfigError"

\* A run of three candidates refused for weights -0.2, 0.1, 0.1, 0 (sum 0).
C10_Witness ==
    /\ Running
    /\ engine.phase = "failed"
    /\ engine.error = "InvalidWeightConfigError"
    /\ engine.weights = Weights(0 - 2, 1, 1, 0)
    /\ Cardinality(DOMAIN engine.candidates) = 3
    /\ DOMAIN engine.scores = {}

(***************************************************************************)
(* Errors, frames and reuse of a generator.                                *)
(***************************************************************************)
\* The institution loop left a row at the break of line 163: the row has
\* fewer columns than the span 6-9.
ShortRow(g) ==
    \E c \in 6..9 : c # g.result_column_idx /\ c > Len(g.skill_headers)

\* C11 as stated: a row with fewer columns than the span of the institution
\* range is never extracted into a cv; the call raises MalformedRowError.
C11_ShortRowRaises ==
    \A g \in Gens :
        (Extracted(g) /\ ShortRow(gens[g])) =>
            \/ LastCall.raised = "MalformedRowError"
            \/ (LastCall.raised # "" /\ ReturnedCvs = {})
            \/ (LastCall.op = "all" /\ DataRows(gens[g]) = {})

\* The last call was a generate_cv_by_index, past load_excel, for an index
\* that denotes no candidate row: a negative one, or one beyond the last row.
UnavailableIndex ==
    /\ calls # <<>>
    /\ LastCall.op = "index"
    /\ Extracted(LastCall.gen)
    /\ \/ LastCall.index < 0
       \/ LastCall.index + 3 > gens[LastCall.gen].worksheet.max_row

\* C12 as stated: generate_cv_by_index fails with an out-of-range error
\* (IndexError, or openpyxl's ValueError for a row below 1) for every index
\* that denotes no candidate row, so no cv comes back for such an index.
C12_UnavailableIndexRaises ==
    UnavailableIndex =>
        /\ LastCall.raised \in {"IndexError", "ValueError"}
        /\ LastCall.value = <<"none">>

\* The step is a call, and the record of that call.
CallMade == Len(calls') = Len(calls) + 1
MadeCall == calls'[Len(calls')]

\* C13 as stated: a generate_all_cvs run that raises has modified neither
\* the Excel file nor the JSON output file.
C13_RaisedRunChangesNoFile ==
    [][(CallMade /\ MadeCall.op = "all" /\ MadeCall.raised # "")
           => (disk' = disk /\ output' = output)]_vars

\* The cells of a worksheet that hold a result JSON.
JsonPositions(ws) == {p \in DOMAIN ws.cell : ws.cell[p][1] = "Json"}

\* C14: a call with update_excel=False leaves the Excel file on disk as it
\* was, whether it returns or raises, and writes no result cell: the JSON
\* cells of the worksheet it loaded are those of the file.
C14_NoUpdateLeavesFile ==
    [][(CallMade /\ ~MadeCall.update_excel) =>
           /\ disk' = disk
           /\ LET ws == gens'[MadeCall.gen].worksheet
              IN  /\ JsonPositions(ws) = JsonPositions(disk)
                  /\ \A p \in JsonPositions(ws) : ws.cell[p] = disk.cell[p]]_vars

\* A generate_all_cvs run with update_excel=False that returned a cv on a
\* workbook without a result column: the generator's worksheet has got the
\* column, the file has not.
C14_Witness ==
    /\ Requested
    /\ ~LastCall.update_excel
    /\ Len(LastCall.value[2].list_cv) >= 1
    /\ gens[LastCall.gen].result_column_idx = disk.max_column + 1
    /\ cell_value(gens[LastCall.gen].worksheet, 2, disk.max_column + 1)
           = Str(RESULT_COLUMN_HEADER)
    /\ JsonCells(disk) = {}
    /\ JsonCells(gens[LastCall.gen].worksheet) = {}

\* What a newly constructed generator returns or raises for the last call,
\* made on the file as it is now.
FreshResult ==
    IF LastCall.op = "all"
    THEN generate_all_cvs(NewInstance, disk, output, "none", FALSE)
    ELSE generate_cv_by_index(NewInstance, disk, LastCall.index, FALSE)

\* C15 as stated: after every load skill_headers has one entry per worksheet
\* column, and a run on a reused generator returns what a fresh generator
\* returns on the same file (compared for runs with update_excel=False,
\* which leave the file as the run found it).
C15_ReusedGeneratorAsFresh ==
    \A g \in Gens : Extracted(g) =>
        /\ Len(gens[g].skill_headers) = gens[g].worksheet.max_column
        /\ (~LastCall.fresh /\ ~LastCall.update_excel) =>
              /\ LastCall.raised \in {FreshResult.raised, "OSError"}
              /\ LastCall.raised = "" => LastCall.value = FreshResult.value

(***************************************************************************)
(* Callers that modify the request a run returned.  The custom_weights of  *)
(* every request is the one dict of the class, so a change made through    *)
(* one request is a change of class_weights and of every request held;     *)
(* list_cv is a list of its own for each run.  Files hold text, not the    *)
(* dict.                                                                   *)
(***************************************************************************)
IsRequest(call) == call.op = "all" /\ call.raised = ""

\* The weight a caller writes into a request.
CallerWeights == {0}

\* request["custom_weights"][name] = v, on the request call i returned.
CallerSetsWeight(i, name, v) ==
    /\ i \in 1..Len(calls)
    /\ IsRequest(calls[i])
    /\ class_weights[name] # v
    /\ class_weights' = [class_weights EXCEPT ![name] = v]
    /\ calls' = [j \in 1..Len(calls) |->
                    IF IsRequest(calls[j])
                    THEN [calls[j] EXCEPT !.value =
                             <<"request", [@[2] EXCEPT !.custom_weights =
                                              class_weights']>>]
                    ELSE calls[j]]
    /\ UNCHANGED <<disk, gens, engine, output>>
    /\ UNCHANGED scaffold

\* request["list_cv"].clear(), on the request call i returned.
CallerClearsListCv(i) ==
    /\ i \in 1..Len(calls)
    /\ IsRequest(calls[i])
    /\ calls[i].value[2].list_cv # <<>>
    /\ calls' = [calls EXCEPT ![i].value =
                    <<"request", [@[2] EXCEPT !.list_cv = <<>>]>>]
    /\ UNCHANGED <<disk, gens, engine, output, class_weights>>
    /\ UNCHANGED scaffold

\* The workbooks of these runs: the narrow sheets of one or two columns.
SharedSheets == {ws \in NarrowSheets : ws.max_column <= 2}

InitShared ==
    /\ disk \in SharedSheets
    /\ gens = [g \in Gens |-> NewInstance]
    /\ calls = <<>>
    /\ engine = EngineIdle
    /\ output = NoOutput
    /\ class_weights = STATIC_CUSTOM_WEIGHTS
    /\ ScaffoldIdle

NextShared ==
    \/ \E g \in Gens : Construct(g)
    \/ \E g \in Gens, o \in OutputPaths, u \in BOOLEAN : GenerateAll(g, o, u)
    \/ \E i \in 1..MaxCalls, name \in WeightNames, v \in CallerWeights :
          CallerSetsWeight(i, name, v)
    \/ \E i \in 1..MaxCalls : CallerClearsListCv(i)

SpecShared == InitShared /\ [][NextShared]_vars

\* C16 as stated: whatever a caller does to a request it got, the class
\* keeps its configuration, and the request a run writes to the output file
\* has the weights of that configuration.
C16_NoSharedState ==
    /\ class_weights = STATIC_CUSTOM_WEIGHTS
    /\ output # NoOutput =>
          output[2].custom_weights = STATIC_CUSTOM_WEIGHTS

(***************************************************************************)
(* What a run emits and writes.                                            *)
(***************************************************************************)
\* The rows from row 3 on with a cell outside the result column that is not
\* empty (neither missing nor the empty string).
NonEmptyRows(g) ==
    {r \in 3..g.worksheet.max_row :
        \E c \in 1..g.worksheet.max_column :
            /\ c # g.result_column_idx
            /\ cell_value(g.worksheet, r, c) \notin {None, Str(<<>>)}}

\* The cvs of the given rows, in ascending row order.
CvsOfRows(g, rows) ==
    [i \in 1..Cardinality(rows) |->
        [cv_id |-> STATIC_CV_ID,
         content |-> build_cv_content(extract_candidate_skills(g, nth(rows, i)))]]

\* C17 as stated: list_cv is the cvs of the rows from row 3 on that have a
\* non-empty cell outside the result column, in ascending row order.
C17_EntryPerNonEmptyRow ==
    Requested =>
        LastCall.value[2].list_cv
            = CvsOfRows(gens[LastCall.gen], NonEmptyRows(gens[LastCall.gen]))

\* C17 amended: list_cv is the cvs of the rows from row 3 on that have,
\* outside the result column, a cell that is neither empty nor the number
\* zero, in ascending row order; no other row is emitted.
C17_EntryPerRowWithData ==
    Requested =>
        LastCall.value[2].list_cv
            = CvsOfRows(gens[LastCall.gen], DataRows(gens[LastCall.gen]))

\* A request with the cv of one row, from a worksheet where another row
\* holds a result JSON and nothing else.
C17_Witness ==
    /\ Requested
    /\ Len(LastCall.value[2].list_cv) = 1
    /\ LET g == gens[LastCall.gen]
       IN  \E r \in 3..g.worksheet.max_row :
              /\ r \notin DataRows(g)
              /\ cell_value(g.worksheet, r, g.result_column_idx)[1] = "Json"

\* The columns of a range that give the row a skill name: marked, not the
\* result column, and with a header that is not empty.
NamingColumns(g, row_idx, cols) ==
    {c \in cols : /\ c # g.result_column_idx
                  /\ c <= Len(g.skill_headers)
                  /\ IsXText(cell_value(g.worksheet, row_idx, c))
                  /\ g.skill_headers[c] # <<>>}

\* Their headers, in ascending column order.
NamesOf(g, row_idx, cols) ==
    [i \in 1..Cardinality(NamingColumns(g, row_idx, cols)) |->
        g.skill_headers[nth(NamingColumns(g, row_idx, cols), i)]]

\* C18: the certificates of every returned cv are the headers of the marked
\* columns among 1-5 and its institutions those among 6-9, each in ascending
\* column order, the result column left out; no other column, column 10 or
\* beyond included, gives the content anything.
C18_SkillsFromTheirRanges ==
    \A e \in ReturnedCvs :
        e.cv.content = build_cv_content(
            [certificate |-> NamesOf(gens[LastCall.gen], e.row, 1..5),
             university |-> NamesOf(gens[LastCall.gen], e.row, 6..9)])

\* A returned cv of a row whose only mark is in column 10: no skill line.
C18_Witness ==
    \E e \in ReturnedCvs :
        /\ e.row = 3
        /\ IsXText(cell_value(gens[LastCall.gen].worksheet, 3, 10))
        /\ gens[LastCall.gen].result_column_idx # 10
        /\ Len(e.cv.content) = 15

ResultHeaderAt(ws, c) ==
    /\ cell_value(ws, 2, c)[1] = "Str"
    /\ str_contains(RESULT_COLUMN_HEADER, str_lower(cell_value(ws, 2, c)[2]))

\* C20 as stated: after any calls, result_column_idx of a generator that
\* has run designates a column of its worksheet with the result header in
\* row 2, and every result JSON in the saved file lies in one column, under
\* a result header.
C20_OneResultColumn ==
    /\ \A g \in Gens :
          (Extracted(g) /\ LastCall.raised = "") =>
              ResultHeaderAt(gens[g].worksheet, gens[g].result_column_idx)
    /\ \A p, q \in JsonPositions(disk) :
          /\ p[2] = q[2]
          /\ p[1] >= 3
          /\ ResultHeaderAt(disk, p[2])

\* A generate_all_cvs run that returned with update_excel=False, followed by
\* a generate_cv_by_index run on a newly constructed generator: both read
\* the same file.
AllThenIndex(i) ==
    /\ i < Len(calls)
    /\ calls[i].op = "all" /\ ~calls[i].update_excel /\ calls[i].raised = ""
    /\ calls[i + 1].op = "index" /\ calls[i + 1].fresh

\* C21 as stated: on one workbook, for every i below the number of entries
\* of list_cv, generate_cv_by_index(i) returns the record list_cv[i] of
\* generate_all_cvs, blank rows between candidate rows included.
C21_EntryPointsAgree ==
    \A i \in 1..Len(calls) :
        (/\ AllThenIndex(i)
         /\ calls[i + 1].index \in 0..(Len(calls[i].value[2].list_cv) - 1)) =>
            /\ calls[i + 1].raised = ""
            /\ calls[i + 1].value[2]
                   = calls[i].value[2].list_cv[calls[i + 1].index + 1]

(***************************************************************************)
(* The waits of WaitHelper and BasePage.  Each builds a WebDriverWait and   *)
(* calls until(condition): the condition is polled, and after a poll that   *)
(* found it false the wait sleeps one poll interval and gives up with       *)
(* TimeoutException once the clock has passed the end time.  The clock      *)
(* counts poll intervals.                                                   *)
(***************************************************************************)
\* The request builder at rest.
BuilderIdle ==
    /\ disk = BaseSheet(MaxCols, 2)
    /\ gens = [g \in Gens |-> NewInstance]
    /\ calls = <<>>
    /\ engine = EngineIdle
    /\ output = NoOutput
    /\ class_weights = STATIC_CUSTOM_WEIGHTS

\* Config.EXPLICIT_WAIT in seconds, read from the environment at import
\* (default 20); here the environment sets EXPLICIT_WAIT=2.
EXPLICIT_WAIT == 2

\* The largest timeout a caller passes, in seconds.
MaxTimeout == 3

\* WebDriverWait polls twice a second (poll_frequency 0.5).
PollsPerSecond == 2

\* The timeout argument: absent (None) or a number of seconds.
Timeouts == {None} \cup {<<"Int", n>> : n \in 0..MaxTimeout}

WaitHelperOps ==
    {"wait_for_url_contains", "wait_for_title_contains",
     "wait_for_element_count", "wait_for_element_text",
     "wait_for_element_invisible"}

BasePageOps == {"wait_for_element", "wait_for_element_clickable"}

WaitOps == WaitHelperOps \cup BasePageOps

\* wait_time = timeout or Config.EXPLICIT_WAIT
wait_time(timeout) == IF truthy(timeout) THEN timeout[2] ELSE EXPLICIT_WAIT

\* The except TimeoutException branch turned into a re-raise.
on_timeout_reraise(op) == [raised |-> "TimeoutException", value |-> None]

\* except TimeoutException: WaitHelper logs and returns False, BasePage logs
\* and raises again.
on_timeout(op) ==
    IF op \in WaitHelperOps
    THEN [raised |-> "", value |-> <<"Bool", FALSE>>]
    ELSE [raised |-> "TimeoutException", value |-> None]

\* What the call returns when until() returns: WaitHelper returns True,
\* BasePage the element.
on_found(op) ==
    IF op \in WaitHelperOps
    THEN [raised |-> "", value |-> <<"Bool", TRUE>>]
    ELSE [raised |-> "", value |-> <<"Element">>]

\* A wait is called: the WebDriverWait is built with its timeout and until()
\* starts at clock 0.
WaitCall(op, timeout) ==
    /\ wait.status # "waiting"
    /\ wait' = [status |-> "waiting", op |-> op, timeout |-> timeout,
                wait_time |-> wait_time(timeout),
                end_time |-> PollsPerSecond * wait_time(timeout),
                clock |-> 0, polled |-> <<>>,
                raised |-> "", value |-> None]
    /\ UNCHANGED <<builder, loggers, session, screenshots, cleanup>>

\* One round of until(): the condition is evaluated and found to be v; if
\* true the call returns, otherwise the wait sleeps one interval and raises
\* TimeoutException when the clock is past the end time.
Poll(v) ==
    /\ wait.status = "waiting"
    /\ \E res \in {IF v THEN on_found(wait.op) ELSE on_timeout(wait.op)} :
          wait' = IF v \/ wait.clock + 1 > wait.end_time
                  THEN [wait EXCEPT !.status = "done",
                                    !.polled = Append(@, v),
                                    !.clock = IF v THEN @ ELSE @ + 1,
                                    !.raised = res.raised,
                                    !.value = res.value]
                  ELSE [wait EXCEPT !.polled = Append(@, v),
                                    !.clock = @ + 1]
    /\ UNCHANGED <<builder, loggers, session, screenshots, cleanup>>

InitWait ==
    /\ BuilderIdle
    /\ ScaffoldIdle

NextWait ==
    \/ \E op \in WaitOps, timeout \in Timeouts : WaitCall(op, timeout)
    \/ \E v \in BOOLEAN : Poll(v)

SpecWait == InitWait /\ [][NextWait]_vars

\* The condition was found true at a poll made within the timeout the wait
\* ran with.
FoundInTime ==
    \E i \in 1..Len(wait.polled) :
        wait.polled[i] /\ i - 1 <= wait.end_time

\* C22: a finished WaitHelper wait has raised nothing; it returned True if
\* and only if its condition was found true within the timeout of the wait,
\* and False if and only if the wait timed out.
C22_WaitHelperReturnsBool ==
    (wait.status = "done" /\ wait.op \in WaitHelperOps) =>
        /\ wait.raised = ""
        /\ wait.value \in {<<"Bool", TRUE>>, <<"Bool", FALSE>>}
        /\ wait.value = <<"Bool", TRUE>> <=> FoundInTime
        /\ wait.value = <<"Bool", FALSE>>
               <=> (~FoundInTime /\ wait.clock > wait.end_time)

\* A WaitHelper wait that polled more than once and timed out.
C22_Witness ==
    /\ wait.status = "done"
    /\ wait.op \in WaitHelperOps
    /\ Len(wait.polled) > 1
    /\ wait.clock > wait.end_time
    /\ wait.value = <<"Bool", FALSE>>

\* C23 as stated: a wait called with a timeout runs with exactly that
\* timeout, 0 included; Config.EXPLICIT_WAIT is used only when none is
\* passed.
C23_CustomTimeoutUsed ==
    wait.status # "idle" =>
        wait.wait_time = IF wait.timeout = None THEN EXPLICIT_WAIT
                         ELSE wait.timeout[2]

(***************************************************************************)
(* The loggers: setup_logger and get_logger.                                *)
(***************************************************************************)
\* The number of setup_logger calls followed for one logger name.
MaxSetups == 3

Levels == {"DEBUG", "INFO"}

\* get_logger's log_file: Config.LOGS_DIR / 'test_execution.log'.
TEST_EXECUTION_LOG == <<"logs/test_execution.log">>

\* The log_file arguments: None or a path.
LogFiles == {None, Str(TEST_EXECUTION_LOG), Str(<<"other.log">>)}

\* The guard against duplicate handlers left out.
never_set_up(lg) == FALSE

\* if logger.handlers: return logger
already_set_up(lg) == lg.handlers # <<>>

\* setup_logger(name, log_file, level) on the logger lg; opens tells whether
\* logging.FileHandler(log_file) can open the file.
setup_logger(lg, log_file, level, opens) ==
    LET levelled == [lg EXCEPT !.level = level, !.setups = @ + 1]
        console == [kind |-> "console", level |-> level, file |-> None]
        file == [kind |-> "file", level |-> level, file |-> log_file]
        with_console == [levelled EXCEPT !.handlers = Append(@, console)]
    IN  IF already_set_up(lg) THEN [logger |-> levelled, raised |-> ""]
        ELSE IF ~truthy(log_file) THEN [logger |-> with_console, raised |-> ""]
        ELSE IF ~opens THEN [logger |-> with_console, raised |-> "OSError"]
        ELSE [logger |-> [with_console EXCEPT !.handlers = Append(@, file)],
              raised |-> ""]

\* get_logger(name)
get_logger(lg, opens) ==
    setup_logger(lg, Str(TEST_EXECUTION_LOG), "INFO", opens)

SetupLogger(name, log_file, level, opens) ==
    /\ loggers[name].setups < MaxSetups
    /\ \E res \in {setup_logger(loggers[name], log_file, level, opens)} :
          loggers' = [loggers EXCEPT ![name] = res.logger]
    /\ UNCHANGED <<builder, wait, session, screenshots, cleanup>>

GetLogger(name, opens) ==
    /\ loggers[name].setups < MaxSetups
    /\ \E res \in {get_logger(loggers[name], opens)} :
          loggers' = [loggers EXCEPT ![name] = res.logger]
    /\ UNCHANGED <<builder, wait, session, screenshots, cleanup>>

InitLogger ==
    /\ BuilderIdle
    /\ ScaffoldIdle

NextLogger ==
    \/ \E name \in LoggerNames, log_file \in LogFiles, level \in Levels,
          opens \in BOOLEAN : SetupLogger(name, log_file, level, opens)
    \/ \E name \in LoggerNames, opens \in BOOLEAN : GetLogger(name, opens)

SpecLogger == InitLogger /\ [][NextLogger]_vars

\* The number of handlers of a kind a logger has.
HandlerCount(lg, kind) ==
    Cardinality({i \in 1..Len(lg.handlers) : lg.handlers[i].kind = kind})

\* C24: whatever setup_logger and get_logger calls are made for a name, its
\* logger ends each call with at most one console handler and at most one
\* file handler, and a call on a logger that has a handler adds none.
C24_NoDuplicateHandlers ==
    [][\A n \in LoggerNames :
          /\ HandlerCount(loggers'[n], "console") <= 1
          /\ HandlerCount(loggers'[n], "file") <= 1
          /\ loggers[n].handlers # <<>> =>
                loggers'[n].handlers = loggers[n].handlers]_vars

\* A logger with its console and its file handler, set up more than once.
C24_Witness ==
    \E n \in LoggerNames :
        /\ loggers[n].setups > 1
        /\ HandlerCount(loggers[n], "console") = 1
        /\ HandlerCount(loggers[n], "file") = 1

(***************************************************************************)
(* A pytest session: for each test the setup phase (the fixtures), the call *)
(* phase (the test body) and the teardown phase (the finalizers), with      *)
(* pytest_runtest_makereport run on the report of every phase.              *)
(***************************************************************************)
\* The number of tests of a session.
MaxTests == 2

\* The driver fixture a test asks for.
Fixtures == {"driver", "session_driver"}

\* How BrowserConfig.create_driver ends: it returns the driver; it raises
\* before a browser runs (unsupported browser name, driver manager or
\* constructor failure); or it raises in implicitly_wait or
\* set_page_load_timeout, on the browser it has started.
CreateOutcomes == {"returns", "raises_before_start", "raises_after_start"}

\* How the setup phase ends: as create_driver does, or with the driver made
\* and a later fixture of the test raising.
SetupOutcomes == CreateOutcomes \cup {"later_fixture_raises"}

\* A session about to run its first test.
NewSession(screenshot_on_failure) ==
    [phase |-> "between", SCREENSHOT_ON_FAILURE |-> screenshot_on_failure,
     log |-> <<>>, funcarg |-> 0, session_driver |-> 0,
     browsers |-> <<>>, shots |-> <<>>]

\* BrowserConfig.create_driver(): the browsers running afterwards and the
\* driver returned (0 when it raised).
create_driver(browsers, scope, outcome) ==
    LET started == Append(browsers, [scope |-> scope, quits |-> 0,
                                     returned |-> outcome = "returns"])
    IN  CASE outcome = "raises_before_start" ->
                 [browsers |-> browsers, driver |-> 0, raised |-> "ValueError"]
          [] outcome = "raises_after_start" ->
                 [browsers |-> started, driver |-> 0,
                  raised |-> "WebDriverException"]
          [] OTHER ->
                 [browsers |-> started, driver |-> Len(started), raised |-> ""]

\* driver_instance.quit()
quit(browsers, driver) ==
    [browsers EXCEPT ![driver].quits = @ + 1]

\* The phase test left out.
failed_in_any_phase(when, failed) == failed

\* if report.when == "call" and report.failed
failed_in_call(when, failed) == when = "call" /\ failed

\* ScreenshotHelper.take_screenshot_on_failure(driver, test_name): the file
\* save_screenshot writes, if it writes one.
take_screenshot(files, test_name, saves) ==
    IF saves
    THEN files \cup {[name |-> <<test_name, "FAILURE">>, suffix |-> "png",
                      age |-> 0]}
    ELSE files

\* pytest_runtest_makereport(item, call) on the report of one phase of the
\* current test; saves tells whether driver.save_screenshot writes its file.
pytest_runtest_makereport(s, files, when, failed, saves) ==
    IF /\ failed_in_call(when, failed)
       /\ s.SCREENSHOT_ON_FAILURE
       /\ s.funcarg # 0
    THEN [session |->
              [s EXCEPT !.shots =
                  Append(@, [test |-> Len(s.log), driver |-> s.funcarg,
                             quit_before |-> s.browsers[s.funcarg].quits > 0,
                             saved |-> saves])],
          files |-> take_screenshot(files, Len(s.log), saves)]
    ELSE [session |-> s, files |-> files]

\* The setup phase of the next test: its driver fixture runs up to the
\* yield, then the setup report is made.  session_driver runs on first use
\* only: pytest keeps its value, or the exception it raised, for the
\* session (session_driver is the driver kept, -1 for an exception).
setup_phase(s, files, fixture, outcome, saves) ==
    LET cached == fixture = "session_driver" /\ s.session_driver # 0
        made == IF cached
                THEN [browsers |-> s.browsers,
                      driver |-> IF s.session_driver > 0
                                 THEN s.session_driver ELSE 0,
                      raised |-> IF s.session_driver > 0
                                 THEN "" ELSE "WebDriverException"]
                ELSE create_driver(s.browsers,
                                   IF fixture = "driver" THEN "function"
                                   ELSE "session",
                                   IF outcome = "later_fixture_raises"
                                   THEN "returns" ELSE outcome)
        failed == made.raised # "" \/ outcome = "later_fixture_raises"
        entry == [fixture |-> fixture,
                  setup |-> IF failed THEN "failed" ELSE "passed",
                  call |-> "none", teardown |-> "none"]
        after == [s EXCEPT !.browsers = made.browsers,
                           !.funcarg = made.driver,
                           !.session_driver =
                               IF fixture # "session_driver" \/ cached THEN @
                               ELSE IF made.raised = "" THEN made.driver
                               ELSE 0 - 1,
                           !.log = Append(@, entry),
                           !.phase = IF failed THEN "teardown" ELSE "call"]
    IN  pytest_runtest_makereport(after, files, "setup", failed, saves)

\* The call phase: the test body runs and passes or fails, then the call
\* report is made.
call_phase(s, files, failed, saves) ==
    LET after == [s EXCEPT !.log[Len(s.log)].call =
                               IF failed THEN "failed" ELSE "passed",
                           !.phase = "teardown"]
    IN  pytest_runtest_makereport(after, files, "call", failed, saves)

\* The teardown phase: the function-scoped driver fixture resumes after its
\* yield and quits its driver; failed tells whether a finalizer of the test
\* raised; then the teardown report is made.
teardown_phase(s, files, failed, saves) ==
    LET test == s.log[Len(s.log)]
        quits == test.fixture = "driver" /\ s.funcarg # 0
        after == [s EXCEPT !.browsers = IF quits THEN quit(@, s.funcarg) ELSE @,
                           !.log[Len(s.log)].teardown =
                               IF failed THEN "failed" ELSE "passed",
                           !.phase = "between"]
        reported == pytest_runtest_makereport(after, files, "teardown",
                                              failed, saves)
    IN  [reported EXCEPT !.session.funcarg = 0]

\* The end of the session: the session_driver fixture resumes after its
\* yield and quits its driver.
session_finish(s) ==
    [s EXCEPT !.browsers = IF s.session_driver > 0
                           THEN quit(@, s.session_driver) ELSE @,
              !.phase = "finished"]

Setup(fixture, outcome, saves) ==
    /\ session.phase = "between"
    /\ Len(session.log) < MaxTests
    /\ \E res \in {setup_phase(session, screenshots, fixture, outcome, saves)} :
          /\ session' = res.session
          /\ screenshots' = res.files
    /\ UNCHANGED <<builder, wait, loggers, cleanup>>

Call(failed, saves) ==
    /\ session.phase = "call"
    /\ \E res \in {call_phase(session, screenshots, failed, saves)} :
          /\ session' = res.session
          /\ screenshots' = res.files
    /\ UNCHANGED <<builder, wait, loggers, cleanup>>

Teardown(failed, saves) ==
    /\ session.phase = "teardown"
    /\ \E res \in {teardown_phase(session, screenshots, failed, saves)} :
          /\ session' = res.session
          /\ screenshots' = res.files
    /\ UNCHANGED <<builder, wait, loggers, cleanup>>

SessionFinish ==
    /\ session.phase = "between"
    /\ session' = session_finish(session)
    /\ UNCHANGED <<builder, wait, loggers, screenshots, cleanup>>

InitSession ==
    /\ BuilderIdle
    /\ wait = NoWait
    /\ loggers = NoHandlers
    /\ session \in {NewSession(on) : on \in BOOLEAN}
    /\ screenshots = {}
    /\ cleanup = NoCleanup

NextSession ==
    \/ \E fixture \in Fixtures, outcome \in SetupOutcomes, saves \in BOOLEAN :
          Setup(fixture, outcome, saves)
    \/ \E failed \in BOOLEAN, saves \in BOOLEAN : Call(failed, saves)
    \/ \E failed \in BOOLEAN, saves \in BOOLEAN : Teardown(failed, saves)
    \/ SessionFinish

SpecSession == InitSession /\ [][NextSession]_vars

\* pytest runs a phase that is due: a session does not stop between phases.
SpecSessionLive == SpecSession /\ WF_vars(NextSession)

\* The browsers create_driver has started for the driver fixture.
FunctionBrowser(b) ==
    /\ b <= Len(session.browsers)
    /\ session.browsers[b].scope = "function"

\* The browser has been quit exactly once.
QuitOnce(b) ==
    /\ b <= Len(session.browsers)
    /\ session.browsers[b].quits = 1

\* C25 as stated: every browser create_driver starts for the function-scoped
\* driver fixture is quit at most once at any time and in the end exactly
\* once, whatever the test's phases yield and whether or not create_driver
\* returned.
C25_EveryBrowserQuitOnce ==
    /\ [](\A b \in 1..MaxTests :
             FunctionBrowser(b) => session.browsers[b].quits <= 1)
    /\ \A b \in 1..MaxTests :
          FunctionBrowser(b) ~> QuitOnce(b)

\* The failure screenshots the hook took for a test.
ShotsOf(test) ==
    {i \in 1..Len(session.shots) : session.shots[i].test = test}

MaxDays == 2

\* The ages of the files, in hours: around each whole number of days.
Ages == {0, 23, 24, 25, 47, 48, 49, 72}

FileNames == {"a", "b"}

\* The directories a clean-up finds: screenshots of any age, and maybe an
\* old file that is not a .png.
Directories ==
    {pngs \cup other :
        pngs \in {fs \in SUBSET {[name |-> <<n>>, suffix |-> "png", age |-> a] :
                                    n \in FileNames, a \in Ages} :
                     \A f, g \in fs : f.name = g.name => f = g},
        other \in {{}, {[name |-> <<"notes">>, suffix |-> "txt", age |-> 72]}}}

\* (current_time - file_time).days > days: timedelta.days is the number of
\* whole days of the difference.
is_old(age, days) == age \div 24 > days

\* The files the loop unlinks.
old_screenshots(files, days) ==
    {f \in files : f.suffix = "png" /\ is_old(f.age, days)}

\* cleanup_old_screenshots(days) on a directory where unlink fails
\* (PermissionError) for the files named in locked: the loop unlinks the
\* old screenshots in the order glob yields them and is left at the first
\* failure, which the except branch logs.  The results are the directories
\* left, for every order.
cleanup_old_screenshots(files, days, locked) ==
    LET old == old_screenshots(files, days)
        fail == {f \in old : f.name \in locked}
    IN  IF fail = {} THEN {[files |-> files \ old, raised |-> ""]}
        ELSE {[files |-> files \ done, raised |-> ""] :
                  done \in SUBSET (old \ fail)}

Cleanup(days, locked) ==
    /\ \E res \in cleanup_old_screenshots(screenshots, days, locked) :
          /\ screenshots' = res.files
          /\ cleanup' = [called |-> TRUE, days |-> days, before |-> screenshots,
                         locked |-> locked, raised |-> res.raised]
    /\ UNCHANGED <<builder, wait, loggers, session>>

InitCleanup ==
    /\ BuilderIdle
    /\ wait = NoWait
    /\ loggers = NoHandlers
    /\ session = NoSession
    /\ screenshots \in Directories
    /\ cleanup = NoCleanup

NextCleanup ==
    \E days \in 0..MaxDays, locked \in SUBSET {<<n>> : n \in FileNames} :
        Cleanup(days, locked)

SpecCleanup == InitCleanup /\ [][NextCleanup]_vars

\* C27 as stated: a clean-up raises nothing and leaves exactly the files
\* that are not .png screenshots older than days * 24 hours.
C27_DeletesExactlyTheOld ==
    cleanup.called =>
        /\ cleanup.raised = ""
        /\ screenshots
               = {f \in cleanup.before :
                     ~(f.suffix = "png" /\ f.age > cleanup.days * 24)}

====
